---- MODULE Spec2Model ----
(***************************************************************************)
(* Tic Tac Toe With Agents (tic-tac-toe.py): the board, the four player    *)
(* agents, the two referees and the Simulator that drives one game.        *)
(*                                                                         *)
(* A board is a function row -> col -> cell, rows and columns 0..2, as in  *)
(* Board.board.  A Coordinate is <<row, col>>, a Move is                   *)
(* <<coordinate, player>>, and Python's None is the empty tuple for a move *)
(* and the string "None" for a judgement.  random.choice is modelled as    *)
(* a nondeterministic choice: every agent's step is the SET of values it   *)
(* may return.                                                             *)
(***************************************************************************)
EXTENDS Integers, Sequences, FiniteSets, TLC

\* ------------------------------------------------------------------ marks
X == 0
O == 1
EMPTY == 2

None == <<>>

Rows == 0..2

\* class Coordinate / class Move
Coordinate(row, col) == <<row, col>>

Move(coordinate, player) == <<coordinate, player>>

\* The cells in the order of "for row in range(3): for col in range(3)".
AllCoordinates ==
    << <<0, 0>>, <<0, 1>>, <<0, 2>>,
       <<1, 0>>, <<1, 1>>, <<1, 2>>,
       <<2, 0>>, <<2, 1>>, <<2, 2>> >>

Range(s) == {s[i] : i \in DOMAIN s}

\* ------------------------------------------------------------------ Board
\* Board.__init__
EmptyBoard == [row \in Rows |-> [col \in Rows |-> EMPTY]]

\* Board.place
place(b, coordinate, player) ==
    [b EXCEPT ![coordinate[1]][coordinate[2]] = player]

\* Every 3x3 grid over {X, O, EMPTY}.
AllBoards == [Rows -> [Rows -> {X, O, EMPTY}]]

\* board_histogram (the same four copies in the agents and RegularReferee):
\* hist[v] is the number of cells holding v.
board_histogram(b) ==
    [v \in {X, O, EMPTY} |->
        Cardinality({i \in DOMAIN AllCoordinates :
                        b[AllCoordinates[i][1]][AllCoordinates[i][2]] = v})]

\* free_spots (the same three copies in the rule-respecting agents): the
\* EMPTY cells in row-major order.
free_spots(b) == SelectSeq(AllCoordinates, LAMBDA c : b[c[1]][c[2]] = EMPTY)

\* ------------------------------------------------------------- check_win
\* The five copies of check_win, with the loops over range(3) unrolled.
\* Each returns the content of the first line, in the order rows 0..2,
\* columns 0..2, diagonal, anti-diagonal, whose three cells are equal --
\* whatever that content is (an all-EMPTY line included).
RandomAgent_check_win(b) ==
    IF b[0][0] = b[0][1] /\ b[0][1] = b[0][2] THEN b[0][0]
    ELSE IF b[1][0] = b[1][1] /\ b[1][1] = b[1][2] THEN b[1][0]
    ELSE IF b[2][0] = b[2][1] /\ b[2][1] = b[2][2] THEN b[2][0]
    ELSE IF b[0][0] = b[1][0] /\ b[1][0] = b[2][0] THEN b[0][0]
    ELSE IF b[0][1] = b[1][1] /\ b[1][1] = b[2][1] THEN b[0][1]
    ELSE IF b[0][2] = b[1][2] /\ b[1][2] = b[2][2] THEN b[0][2]
    ELSE IF b[0][0] = b[1][1] /\ b[1][1] = b[2][2] THEN b[0][0]
    ELSE IF b[0][2] = b[1][1] /\ b[1][1] = b[2][0] THEN b[0][2]
    ELSE EMPTY

OneStepAheadAgent_check_win(b) ==
    IF b[0][0] = b[0][1] /\ b[0][1] = b[0][2] THEN b[0][0]
    ELSE IF b[1][0] = b[1][1] /\ b[1][1] = b[1][2] THEN b[1][0]
    ELSE IF b[2][0] = b[2][1] /\ b[2][1] = b[2][2] THEN b[2][0]
    ELSE IF b[0][0] = b[1][0] /\ b[1][0] = b[2][0] THEN b[0][0]
    ELSE IF b[0][1] = b[1][1] /\ b[1][1] = b[2][1] THEN b[0][1]
    ELSE IF b[0][2] = b[1][2] /\ b[1][2] = b[2][2] THEN b[0][2]
    ELSE IF b[0][0] = b[1][1] /\ b[1][1] = b[2][2] THEN b[0][0]
    ELSE IF b[0][2] = b[1][1] /\ b[1][1] = b[2][0] THEN b[0][2]
    ELSE EMPTY

MinimaxAgent_check_win(b) ==
    IF b[0][0] = b[0][1] /\ b[0][1] = b[0][2] THEN b[0][0]
    ELSE IF b[1][0] = b[1][1] /\ b[1][1] = b[1][2] THEN b[1][0]
    ELSE IF b[2][0] = b[2][1] /\ b[2][1] = b[2][2] THEN b[2][0]
    ELSE IF b[0][0] = b[1][0] /\ b[1][0] = b[2][0] THEN b[0][0]
    ELSE IF b[0][1] = b[1][1] /\ b[1][1] = b[2][1] THEN b[0][1]
    ELSE IF b[0][2] = b[1][2] /\ b[1][2] = b[2][2] THEN b[0][2]
    ELSE IF b[0][0] = b[1][1] /\ b[1][1] = b[2][2] THEN b[0][0]
    ELSE IF b[0][2] = b[1][1] /\ b[1][1] = b[2][0] THEN b[0][2]
    ELSE EMPTY

RegularReferee_check_win(b) ==
    IF b[0][0] = b[0][1] /\ b[0][1] = b[0][2] THEN b[0][0]
    ELSE IF b[1][0] = b[1][1] /\ b[1][1] = b[1][2] THEN b[1][0]
    ELSE IF b[2][0] = b[2][1] /\ b[2][1] = b[2][2] THEN b[2][0]
    ELSE IF b[0][0] = b[1][0] /\ b[1][0] = b[2][0] THEN b[0][0]
    ELSE IF b[0][1] = b[1][1] /\ b[1][1] = b[2][1] THEN b[0][1]
    ELSE IF b[0][2] = b[1][2] /\ b[1][2] = b[2][2] THEN b[0][2]
    ELSE IF b[0][0] = b[1][1] /\ b[1][1] = b[2][2] THEN b[0][0]
    ELSE IF b[0][2] = b[1][1] /\ b[1][1] = b[2][0] THEN b[0][2]
    ELSE EMPTY

\* check_win with the row loop starting at row 1.
NoPenaltiesReferee_check_win_from_row1(b) ==
    IF b[1][0] = b[1][1] /\ b[1][1] = b[1][2] THEN b[1][0]
    ELSE IF b[2][0] = b[2][1] /\ b[2][1] = b[2][2] THEN b[2][0]
    ELSE IF b[0][0] = b[1][0] /\ b[1][0] = b[2][0] THEN b[0][0]
    ELSE IF b[0][1] = b[1][1] /\ b[1][1] = b[2][1] THEN b[0][1]
    ELSE IF b[0][2] = b[1][2] /\ b[1][2] = b[2][2] THEN b[0][2]
    ELSE IF b[0][0] = b[1][1] /\ b[1][1] = b[2][2] THEN b[0][0]
    ELSE IF b[0][2] = b[1][1] /\ b[1][1] = b[2][0] THEN b[0][2]
    ELSE EMPTY

NoPenaltiesReferee_check_win(b) ==
    IF b[0][0] = b[0][1] /\ b[0][1] = b[0][2] THEN b[0][0]
    ELSE IF b[1][0] = b[1][1] /\ b[1][1] = b[1][2] THEN b[1][0]
    ELSE IF b[2][0] = b[2][1] /\ b[2][1] = b[2][2] THEN b[2][0]
    ELSE IF b[0][0] = b[1][0] /\ b[1][0] = b[2][0] THEN b[0][0]
    ELSE IF b[0][1] = b[1][1] /\ b[1][1] = b[2][1] THEN b[0][1]
    ELSE IF b[0][2] = b[1][2] /\ b[1][2] = b[2][2] THEN b[0][2]
    ELSE IF b[0][0] = b[1][1] /\ b[1][1] = b[2][2] THEN b[0][0]
    ELSE IF b[0][2] = b[1][1] /\ b[1][1] = b[2][0] THEN b[0][2]
    ELSE EMPTY

\* ----------------------------------------------------------------- agents
\* NoRulesAgent.step: a coin decides whether to move at all; the cell and
\* the mark are drawn without looking at the board or at self.player.
NoRulesAgent_step(player, board) ==
    {None} \cup {Move(Coordinate(row, col), p) :
                    row \in {0, 1, 2}, col \in {0, 1, 2}, p \in {X, O}}

\* The turn tests of the three rule-respecting agents: TRUE when the agent
\* returns None with "Not my turn".
RandomAgent_not_my_turn(player, hist) ==
    \/ (hist[O] >= hist[X]) /\ player = O
    \/ (hist[X] > hist[O]) /\ player = X

OneStepAheadAgent_not_my_turn(player, hist) ==
    \/ (hist[O] >= hist[X]) /\ player = O
    \/ (hist[X] > hist[O]) /\ player = X

\* The turn tests of MinimaxAgent.step without the first one: as O the
\* agent never takes it to be X's turn.
MinimaxAgent_not_my_turn_as_x_only(player, hist) ==
    (hist[X] > hist[O]) /\ player = X

MinimaxAgent_not_my_turn(player, hist) ==
    \/ (hist[O] >= hist[X]) /\ player = O
    \/ (hist[X] > hist[O]) /\ player = X

\* RandomAgent.step drawing its cell from all nine cells instead of the
\* free spots.
RandomAgent_step_any_cell(player, board) ==
    LET hist == board_histogram(board)
        winner == RandomAgent_check_win(board)
    IN  IF winner = player THEN {None}
        ELSE IF winner # EMPTY THEN {None}
        ELSE IF hist[EMPTY] = 0 THEN {None}
        ELSE IF RandomAgent_not_my_turn(player, hist) THEN {None}
        ELSE {Move(random_spot, player) : random_spot \in Range(AllCoordinates)}

\* RandomAgent.step
RandomAgent_step(player, board) ==
    LET hist == board_histogram(board)
        winner == RandomAgent_check_win(board)
    IN  IF winner = player THEN {None}
        ELSE IF winner # EMPTY THEN {None}
        ELSE IF hist[EMPTY] = 0 THEN {None}
        ELSE IF RandomAgent_not_my_turn(player, hist) THEN {None}
        ELSE {Move(random_free_spot, player) :
                 random_free_spot \in Range(free_spots(board))}

\* The two "imagine" loops of OneStepAheadAgent.step: the first free spot
\* on which placing mark makes check_win return mark, or None.  The
\* placement is taken back before the next spot is tried.
RECURSIVE OneStepAheadAgent_imagine(_, _, _)
OneStepAheadAgent_imagine(moves, imagined_board, mark) ==
    IF moves = <<>> THEN None
    ELSE LET move == Head(moves)
             placed == place(imagined_board, move, mark)
         IN  IF OneStepAheadAgent_check_win(placed) = mark
             THEN move
             ELSE OneStepAheadAgent_imagine(Tail(moves),
                                            place(placed, move, EMPTY), mark)

\* OneStepAheadAgent.step
OneStepAheadAgent_step(player, board) ==
    LET hist == board_histogram(board)
        winner == OneStepAheadAgent_check_win(board)
        other_player == IF player = O THEN X ELSE O
        mine == OneStepAheadAgent_imagine(free_spots(board), board, player)
        theirs == OneStepAheadAgent_imagine(free_spots(board), board,
                                            other_player)
    IN  IF winner = player THEN {None}
        ELSE IF winner # EMPTY THEN {None}
        ELSE IF hist[EMPTY] = 0 THEN {None}
        ELSE IF OneStepAheadAgent_not_my_turn(player, hist) THEN {None}
        ELSE IF mine # None THEN {Move(mine, player)}
        ELSE IF theirs # None THEN {Move(theirs, player)}
        ELSE {Move(random_free_spot, player) :
                 random_free_spot \in Range(free_spots(board))}

\* max(values.values()) of a dict kept as a set of <<key, value>> pairs.
max_value(values) ==
    CHOOSE v \in {kv[2] : kv \in values} :
        \A w \in {kv[2] : kv \in values} : w <= v

\* MinimaxAgent.position_values, in three parts.
\*
\* The loop runs over the free spots of the board passed in and places on
\* imagined_board, a copy of it.  The placement is taken back
\* (place(move, EMPTY)) only at the end of the loop body: the two
\* "continue" paths (the placement wins, the placement fills the board)
\* skip that line and leave the mark on imagined_board for the rest of the
\* loop.  placed_boards is the sequence of imagined_board as it stands in
\* each iteration right after "imagined_board.place(move, imagined_player)".
RECURSIVE placed_boards(_, _, _)
placed_boards(moves, imagined_board, imagined_player) ==
    IF moves = <<>> THEN <<>>
    ELSE LET move == Head(moves)
             placed == place(imagined_board, move, imagined_player)
         IN  <<placed>> \o
             placed_boards(
                 Tail(moves),
                 IF MinimaxAgent_check_win(placed) = imagined_player
                 THEN placed
                 ELSE IF Len(free_spots(placed)) = 0
                 THEN placed
                 ELSE place(placed, move, EMPTY),
                 imagined_player)

\* values[move] of one iteration, from imagined_board after the placement.
RECURSIVE position_values(_, _)
\* position_value with the "* -1" forgotten: the opponent's best value is
\* taken as one's own.
position_value_unnegated(placed, imagined_player) ==
    IF MinimaxAgent_check_win(placed) = imagined_player THEN 1
    ELSE IF Len(free_spots(placed)) = 0 THEN 0
    ELSE max_value(position_values(
                       placed, IF imagined_player = O THEN X ELSE O))

position_value(placed, imagined_player) ==
    IF MinimaxAgent_check_win(placed) = imagined_player THEN 1
    ELSE IF Len(free_spots(placed)) = 0 THEN 0
    ELSE max_value(position_values(
                       placed, IF imagined_player = O THEN X ELSE O)) * (-1)

\* The dict returned, a set of <<move, value>> pairs.
position_values(board, imagined_player) ==
    LET moves == free_spots(board)
        placed == placed_boards(moves, board, imagined_player)
    IN  {<<moves[i], position_value(placed[i], imagined_player)>> :
            i \in DOMAIN moves}

\* MinimaxAgent.step
MinimaxAgent_step(player, board) ==
    LET hist == board_histogram(board)
        winner == MinimaxAgent_check_win(board)
    IN  IF winner = player THEN {None}
        ELSE IF winner # EMPTY THEN {None}
        ELSE IF hist[EMPTY] = 0 THEN {None}
        ELSE IF MinimaxAgent_not_my_turn(player, hist) THEN {None}
        ELSE LET values == position_values(board, player)
                 highest_value == max_value(values)
                 highest_value_positions ==
                     {kv[1] : kv \in {e \in values : e[2] = highest_value}}
             IN  {Move(random_highest_value_position, player) :
                     random_highest_value_position \in highest_value_positions}

\* --------------------------------------------------------------- referees
\* whose_turn with > for >=: O is taken to move first.
whose_turn_strict(board) ==
    LET hist == board_histogram(board)
    IN  IF hist[O] > hist[X] THEN X ELSE O

\* RegularReferee.whose_turn
whose_turn(board) ==
    LET hist == board_histogram(board)
    IN  IF hist[O] >= hist[X] THEN X ELSE O

\* board_full with any() for all(): one mark makes the board "full".
board_full_any(board) ==
    \E row \in Rows : \E col \in Rows : board[row][col] # EMPTY

\* all(pos is not EMPTY for pos in board.iter())
board_full(board) ==
    \A row \in Rows : \A col \in Rows : board[row][col] # EMPTY

\* RegularReferee.step without its last two checks: a player who is to
\* move and does not is not penalised.
RegularReferee_step_no_skip_check(board, x_move, o_move) ==
    IF x_move # None /\ x_move[2] # X THEN "X_PENALTY"
    ELSE IF o_move # None /\ o_move[2] # O THEN "O_PENALTY"
    ELSE IF x_move # None /\ board[x_move[1][1]][x_move[1][2]] # EMPTY
    THEN "X_PENALTY"
    ELSE IF o_move # None /\ board[o_move[1][1]][o_move[1][2]] # EMPTY
    THEN "O_PENALTY"
    ELSE IF x_move # None /\ whose_turn(board) = O THEN "X_PENALTY"
    ELSE IF o_move # None /\ whose_turn(board) = X THEN "O_PENALTY"
    ELSE IF RegularReferee_check_win(board) = X THEN "X_WINS"
    ELSE IF RegularReferee_check_win(board) = O THEN "O_WINS"
    ELSE IF board_full(board) /\ RegularReferee_check_win(board) = EMPTY
    THEN "DRAW"
    ELSE "None"

\* RegularReferee.step with the win and draw checks moved to the front.
RegularReferee_step_wins_first(board, x_move, o_move) ==
    IF RegularReferee_check_win(board) = X THEN "X_WINS"
    ELSE IF RegularReferee_check_win(board) = O THEN "O_WINS"
    ELSE IF board_full(board) /\ RegularReferee_check_win(board) = EMPTY
    THEN "DRAW"
    ELSE IF x_move # None /\ x_move[2] # X THEN "X_PENALTY"
    ELSE IF o_move # None /\ o_move[2] # O THEN "O_PENALTY"
    ELSE IF x_move # None /\ board[x_move[1][1]][x_move[1][2]] # EMPTY
    THEN "X_PENALTY"
    ELSE IF o_move # None /\ board[o_move[1][1]][o_move[1][2]] # EMPTY
    THEN "O_PENALTY"
    ELSE IF x_move # None /\ whose_turn(board) = O THEN "X_PENALTY"
    ELSE IF o_move # None /\ whose_turn(board) = X THEN "O_PENALTY"
    ELSE IF x_move = None /\ whose_turn(board) = X THEN "X_PENALTY"
    ELSE IF o_move = None /\ whose_turn(board) = O THEN "O_PENALTY"
    ELSE "None"

\* RegularReferee.step without its first two checks: the mark of a move
\* is not looked at.
RegularReferee_step_no_symbol_check(board, x_move, o_move) ==
    IF x_move # None /\ board[x_move[1][1]][x_move[1][2]] # EMPTY
    THEN "X_PENALTY"
    ELSE IF o_move # None /\ board[o_move[1][1]][o_move[1][2]] # EMPTY
    THEN "O_PENALTY"
    ELSE IF x_move # None /\ whose_turn(board) = O THEN "X_PENALTY"
    ELSE IF o_move # None /\ whose_turn(board) = X THEN "O_PENALTY"
    ELSE IF RegularReferee_check_win(board) = X THEN "X_WINS"
    ELSE IF RegularReferee_check_win(board) = O THEN "O_WINS"
    ELSE IF board_full(board) /\ RegularReferee_check_win(board) = EMPTY
    THEN "DRAW"
    ELSE IF x_move = None /\ whose_turn(board) = X THEN "X_PENALTY"
    ELSE IF o_move = None /\ whose_turn(board) = O THEN "O_PENALTY"
    ELSE "None"

\* RegularReferee.step without its third and fourth checks: a move onto an
\* occupied cell is not penalised.
RegularReferee_step_no_occupied_check(board, x_move, o_move) ==
    IF x_move # None /\ x_move[2] # X THEN "X_PENALTY"
    ELSE IF o_move # None /\ o_move[2] # O THEN "O_PENALTY"
    ELSE IF x_move # None /\ whose_turn(board) = O THEN "X_PENALTY"
    ELSE IF o_move # None /\ whose_turn(board) = X THEN "O_PENALTY"
    ELSE IF RegularReferee_check_win(board) = X THEN "X_WINS"
    ELSE IF RegularReferee_check_win(board) = O THEN "O_WINS"
    ELSE IF board_full(board) /\ RegularReferee_check_win(board) = EMPTY
    THEN "DRAW"
    ELSE IF x_move = None /\ whose_turn(board) = X THEN "X_PENALTY"
    ELSE IF o_move = None /\ whose_turn(board) = O THEN "O_PENALTY"
    ELSE "None"

\* RegularReferee.step: a Judgement name, or "None" when the method falls
\* off its end.  A move is <<coordinate, player>>.
RegularReferee_step(board, x_move, o_move) ==
    IF x_move # None /\ x_move[2] # X THEN "X_PENALTY"
    ELSE IF o_move # None /\ o_move[2] # O THEN "O_PENALTY"
    ELSE IF x_move # None /\ board[x_move[1][1]][x_move[1][2]] # EMPTY
    THEN "X_PENALTY"
    ELSE IF o_move # None /\ board[o_move[1][1]][o_move[1][2]] # EMPTY
    THEN "O_PENALTY"
    ELSE IF x_move # None /\ whose_turn(board) = O THEN "X_PENALTY"
    ELSE IF o_move # None /\ whose_turn(board) = X THEN "O_PENALTY"
    ELSE IF RegularReferee_check_win(board) = X THEN "X_WINS"
    ELSE IF RegularReferee_check_win(board) = O THEN "O_WINS"
    ELSE IF board_full(board) /\ RegularReferee_check_win(board) = EMPTY
    THEN "DRAW"
    ELSE IF x_move = None /\ whose_turn(board) = X THEN "X_PENALTY"
    ELSE IF o_move = None /\ whose_turn(board) = O THEN "O_PENALTY"
    ELSE "None"

\* NoPenaltiesReferee.step looking at the mark of a submitted move first, as
\* RegularReferee.step does.
NoPenaltiesReferee_step_with_symbol_check(board, x_move, o_move) ==
    IF x_move # None /\ x_move[2] # X THEN "X_PENALTY"
    ELSE IF o_move # None /\ o_move[2] # O THEN "O_PENALTY"
    ELSE IF NoPenaltiesReferee_check_win(board) = X THEN "X_WINS"
    ELSE IF NoPenaltiesReferee_check_win(board) = O THEN "O_WINS"
    ELSE IF board_full(board) /\ NoPenaltiesReferee_check_win(board) = EMPTY
    THEN "DRAW"
    ELSE "None"

\* NoPenaltiesReferee.step ending with the skipped-turn checks of
\* RegularReferee.step.
NoPenaltiesReferee_step_with_skip_check(board, x_move, o_move) ==
    IF NoPenaltiesReferee_check_win(board) = X THEN "X_WINS"
    ELSE IF NoPenaltiesReferee_check_win(board) = O THEN "O_WINS"
    ELSE IF board_full(board) /\ NoPenaltiesReferee_check_win(board) = EMPTY
    THEN "DRAW"
    ELSE IF x_move = None /\ whose_turn(board) = X THEN "X_PENALTY"
    ELSE IF o_move = None /\ whose_turn(board) = O THEN "O_PENALTY"
    ELSE "None"

\* NoPenaltiesReferee.step
NoPenaltiesReferee_step(board, x_move, o_move) ==
    IF NoPenaltiesReferee_check_win(board) = X THEN "X_WINS"
    ELSE IF NoPenaltiesReferee_check_win(board) = O THEN "O_WINS"
    ELSE IF board_full(board) /\ NoPenaltiesReferee_check_win(board) = EMPTY
    THEN "DRAW"
    ELSE "None"

\* --------------------------------------------- agents and Board objects
\* What a call of agent.step does to the Board objects.  A heap is a
\* sequence of board contents and a Board object is an index into it; the
\* object a step is handed is "board", the objects it creates come after.

\* Board.copy returning the object it was called on instead of a new one.
Board_copy_same_object(heap, b) ==
    [heap |-> heap, new_board |-> b]

\* Board.copy: a new Board whose nine cells are assigned from self.
Board_copy(heap, b) ==
    [heap |-> Append(heap, heap[b]), new_board |-> Len(heap) + 1]

\* Board.place on the object b.
Board_place(heap, b, coordinate, player) ==
    [heap EXCEPT ![b] = place(heap[b], coordinate, player)]

\* One "imagine" loop of OneStepAheadAgent.step on the object
\* imagined_board: the heap it leaves, and whether it returned a move (the
\* return comes before the placement is taken back).
RECURSIVE OneStepAheadAgent_imagine_heap(_, _, _, _)
OneStepAheadAgent_imagine_heap(moves, heap, imagined_board, mark) ==
    IF moves = <<>> THEN [heap |-> heap, returned |-> FALSE]
    ELSE LET move == Head(moves)
             placed == Board_place(heap, imagined_board, move, mark)
         IN  IF OneStepAheadAgent_check_win(placed[imagined_board]) = mark
             THEN [heap |-> placed, returned |-> TRUE]
             ELSE OneStepAheadAgent_imagine_heap(
                      Tail(moves),
                      Board_place(placed, imagined_board, move, EMPTY),
                      imagined_board, mark)

\* OneStepAheadAgent.step: the heap when the call returns.
OneStepAheadAgent_step_heap(player, heap, board) ==
    LET hist == board_histogram(heap[board])
        winner == OneStepAheadAgent_check_win(heap[board])
        other_player == IF player = O THEN X ELSE O
        copy1 == Board_copy(heap, board)
        mine == OneStepAheadAgent_imagine_heap(
                    free_spots(heap[board]), copy1.heap, copy1.new_board,
                    player)
        copy2 == Board_copy(mine.heap, board)
        theirs == OneStepAheadAgent_imagine_heap(
                      free_spots(mine.heap[board]), copy2.heap,
                      copy2.new_board, other_player)
    IN  IF winner = player THEN heap
        ELSE IF winner # EMPTY THEN heap
        ELSE IF hist[EMPTY] = 0 THEN heap
        ELSE IF OneStepAheadAgent_not_my_turn(player, hist) THEN heap
        ELSE IF mine.returned THEN mine.heap
        ELSE theirs.heap

\* MinimaxAgent.position_values: the heap when the call returns.  The
\* objects the call created are local to it and are dropped.
RECURSIVE position_values_heap(_, _, _)
RECURSIVE position_values_loop_heap(_, _, _, _)
position_values_loop_heap(moves, heap, imagined_board, imagined_player) ==
    IF moves = <<>> THEN heap
    ELSE LET move == Head(moves)
             placed == Board_place(heap, imagined_board, move,
                                   imagined_player)
         IN  position_values_loop_heap(
                 Tail(moves),
                 IF MinimaxAgent_check_win(placed[imagined_board])
                      = imagined_player
                 THEN placed
                 ELSE IF Len(free_spots(placed[imagined_board])) = 0
                 THEN placed
                 ELSE Board_place(
                          position_values_heap(
                              placed, imagined_board,
                              IF imagined_player = O THEN X ELSE O),
                          imagined_board, move, EMPTY),
                 imagined_board, imagined_player)

position_values_heap(heap, board, imagined_player) ==
    LET copy == Board_copy(heap, board)
    IN  SubSeq(position_values_loop_heap(
                   free_spots(heap[board]), copy.heap, copy.new_board,
                   imagined_player),
               1, Len(heap))

\* MinimaxAgent.step: the heap when the call returns.
MinimaxAgent_step_heap(player, heap, board) ==
    LET hist == board_histogram(heap[board])
        winner == MinimaxAgent_check_win(heap[board])
    IN  IF winner = player THEN heap
        ELSE IF winner # EMPTY THEN heap
        ELSE IF hist[EMPTY] = 0 THEN heap
        ELSE IF MinimaxAgent_not_my_turn(player, hist) THEN heap
        ELSE position_values_heap(heap, board, player)

\* agent.step(board), by the class of the agent: the heap when the call
\* returns.  NoRulesAgent.step and RandomAgent.step call neither copy nor
\* place.
agent_step_heap(agent, player, heap, board) ==
    CASE agent = "NoRulesAgent" -> heap
      [] agent = "RandomAgent" -> heap
      [] agent = "OneStepAheadAgent" ->
             OneStepAheadAgent_step_heap(player, heap, board)
      [] agent = "MinimaxAgent" -> MinimaxAgent_step_heap(player, heap, board)

\* -------------------------------------------------------------- Simulator
\* The classes an agent and a referee can be constructed from.
Agents == {"NoRulesAgent", "RandomAgent", "OneStepAheadAgent", "MinimaxAgent"}

Referees == {"RegularReferee", "NoPenaltiesReferee"}

\* agent.step(self.board), by the class of the agent
agent_step(agent, player, board) ==
    CASE agent = "NoRulesAgent" -> NoRulesAgent_step(player, board)
      [] agent = "RandomAgent" -> RandomAgent_step(player, board)
      [] agent = "OneStepAheadAgent" -> OneStepAheadAgent_step(player, board)
      [] agent = "MinimaxAgent" -> MinimaxAgent_step(player, board)

\* self.referee.step(self.board, moves[X], moves[O]), by the class of the
\* referee
referee_step(ref, board, x_move, o_move) ==
    CASE ref = "RegularReferee" -> RegularReferee_step(board, x_move, o_move)
      [] ref = "NoPenaltiesReferee" ->
             NoPenaltiesReferee_step(board, x_move, o_move)

\* "for move in moves: if move is not None: self.board.place(...)" with
\* moves = [x's, o's]
place_moves(board, x_move, o_move) ==
    LET after_x == IF x_move # None
                   THEN place(board, x_move[1], x_move[2]) ELSE board
    IN  IF o_move # None THEN place(after_x, o_move[1], o_move[2])
        ELSE after_x

\* Simulator.step placing the moves before it looks at the judgement.
Simulator_step_result_places_first(ref, b, x_move, o_move) ==
    [judgement |-> referee_step(ref, b, x_move, o_move),
     board |-> place_moves(b, x_move, o_move)]

\* Simulator.step once both agents have answered: the judgement returned
\* and the board left behind.
Simulator_step_result(ref, b, x_move, o_move) ==
    LET j == referee_step(ref, b, x_move, o_move)
    IN  IF j # "None"
        THEN [judgement |-> j, board |-> b]
        ELSE [judgement |-> "None", board |-> place_moves(b, x_move, o_move)]

\* Simulator.run calls Simulator.step until a judgement is returned; steps
\* counts the calls and stops counting at MaxSteps.
MaxSteps == 11

VARIABLES
    agent_x,     \* Simulator.players[X], by class
    agent_o,     \* Simulator.players[O], by class
    referee,     \* Simulator.referee, by class
    board,       \* Simulator.board
    judgement,   \* what the latest step returned; "None" while run loops
    steps,       \* calls of Simulator.step made by Simulator.run
    x_move,      \* the x_move handed to referee.step by Referee_call
    o_move       \* the o_move handed to referee.step by Referee_call

vars == <<agent_x, agent_o, referee, board, judgement, steps, x_move, o_move>>

\* Simulator.__init__ for the given agent and referee classes.
Simulator_init(agents, refs) ==
    /\ agent_x \in agents
    /\ agent_o \in agents
    /\ referee \in refs
    /\ board = EmptyBoard
    /\ judgement = "None"
    /\ steps = 0
    /\ x_move = None
    /\ o_move = None

\* One pass of the loop in Simulator.run: one call of Simulator.step.  The
\* moves of a step are local to it and are not kept in the state.
\* m is "[agent.step(self.board) for agent in self.players]", for every
\* resolution of the agents' random choices.
Simulator_step ==
    /\ judgement = "None"
    /\ \E m \in agent_step(agent_x, X, board)
                    \X agent_step(agent_o, O, board) :
            LET r == Simulator_step_result(referee, board, m[1], m[2])
            IN  /\ judgement' = r.judgement
                /\ board' = r.board
    /\ steps' = IF steps < MaxSteps THEN steps + 1 ELSE steps
    /\ UNCHANGED <<agent_x, agent_o, referee, x_move, o_move>>

\* Games under RegularReferee, any pair of agents.
Init == Simulator_init(Agents, {"RegularReferee"})

Next == Simulator_step

Spec == Init /\ [][Next]_vars

\* Games under RegularReferee between MinimaxAgent and RandomAgent, each
\* in either seat.
SpecMinimax ==
    Simulator_init({"MinimaxAgent", "RandomAgent"}, {"RegularReferee"})
      /\ [][Next]_vars

\* One call of referee.step on an arbitrary board, with the moves two
\* NoRulesAgents can submit (any move, or none); the board is left alone.
Referee_init(refs) ==
    /\ agent_x = "NoRulesAgent"
    /\ agent_o = "NoRulesAgent"
    /\ referee \in refs
    /\ board \in AllBoards
    /\ judgement = "None"
    /\ steps = 0
    /\ x_move = None
    /\ o_move = None

Referee_call ==
    /\ steps = 0
    /\ \E m \in agent_step(agent_x, X, board)
                    \X agent_step(agent_o, O, board) :
            /\ x_move' = m[1]
            /\ o_move' = m[2]
            /\ judgement' = referee_step(referee, board, m[1], m[2])
    /\ steps' = 1
    /\ UNCHANGED <<agent_x, agent_o, referee, board>>

\* RegularReferee.step over every board and every pair of moves.
SpecRegularReferee == Referee_init({"RegularReferee"}) /\ [][Referee_call]_vars

\* The step of either referee over every board and every pair of moves.
SpecReferees == Referee_init(Referees) /\ [][Referee_call]_vars

\* One call of agent.step on an arbitrary board, outside a game: one agent
\* is constructed, for X or for O, and the other seat holds no agent.  The
\* boards are those with at most MaxFree free spots.
MaxFree == 6

Agent_init ==
    /\ \/ agent_x \in Agents /\ agent_o = "None"
       \/ agent_x = "None" /\ agent_o \in Agents
    /\ referee = "None"
    /\ board \in {b \in AllBoards : Len(free_spots(b)) <= MaxFree}
    /\ judgement = "None"
    /\ steps = 0
    /\ x_move = None
    /\ o_move = None

\* agent.step(board) with board the only Board object there is: the move
\* returned, and the content of that object when the call returns.
Agent_call ==
    /\ steps = 0
    /\ LET player == IF agent_x # "None" THEN X ELSE O
           agent == IF agent_x # "None" THEN agent_x ELSE agent_o
       IN  /\ \E move \in agent_step(agent, player, board) :
                  /\ x_move' = IF player = X THEN move ELSE None
                  /\ o_move' = IF player = O THEN move ELSE None
           /\ board' = agent_step_heap(agent, player, <<board>>, 1)[1]
    /\ steps' = 1
    /\ UNCHANGED <<agent_x, agent_o, referee, judgement>>

SpecAgents == Agent_init /\ [][Agent_call]_vars

\* Games under NoPenaltiesReferee with a NoRulesAgent in at least one seat.
Lawless_init ==
    /\ Simulator_init(Agents, {"NoPenaltiesReferee"})
    /\ "NoRulesAgent" \in {agent_x, agent_o}

\* agent.step(self.board) where the coin of NoRulesAgent.step
\* (random.choice([True, False])) comes up False at every poll: the agent
\* returns None.  The other agents answer as always.
agent_step_coin_false(agent, player, b) ==
    IF agent = "NoRulesAgent" THEN {None}
    ELSE agent_step(agent, player, b)

\* One pass of the loop in Simulator.run in which every NoRulesAgent
\* declines.
Simulator_step_coin_false ==
    /\ judgement = "None"
    /\ \E m \in agent_step_coin_false(agent_x, X, board)
                    \X agent_step_coin_false(agent_o, O, board) :
            LET r == Simulator_step_result(referee, board, m[1], m[2])
            IN  /\ judgement' = r.judgement
                /\ board' = r.board
    /\ steps' = IF steps < MaxSteps THEN steps + 1 ELSE steps
    /\ UNCHANGED <<agent_x, agent_o, referee, x_move, o_move>>

\* The executions of such games in which the lawless agent never moves.
SpecLawlessDeclines == Lawless_init /\ [][Simulator_step_coin_false]_vars

\* ----------------------------------------------------------------- claims
\* The vocabulary of the claims, stated without the program's helpers.
\* The eight lines of the board: 3 rows, 3 columns, 2 diagonals.
Lines ==
    {{<<r, 0>>, <<r, 1>>, <<r, 2>>} : r \in Rows}
      \cup {{<<0, c>>, <<1, c>>, <<2, c>>} : c \in Rows}
      \cup {{<<0, 0>>, <<1, 1>>, <<2, 2>>}, {<<0, 2>>, <<1, 1>>, <<2, 0>>}}

\* Some line of b has all three cells equal to mark m.
has_line(b, m) == \E line \in Lines : \A c \in line : b[c[1]][c[2]] = m

\* The number of cells of b holding v.
count(b, v) == Cardinality({c \in Rows \X Rows : b[c[1]][c[2]] = v})

Penalties == {"X_PENALTY", "O_PENALTY"}

\* C1: a game of MinimaxAgent(X) against MinimaxAgent(O) under
\* RegularReferee never returns a judgement other than DRAW, whatever the
\* tie-breaks.
C1_MinimaxVsMinimaxDraws ==
    (agent_x = "MinimaxAgent" /\ agent_o = "MinimaxAgent"
        /\ referee = "RegularReferee" /\ judgement # "None")
      => judgement = "DRAW"

C1_Witness ==
    /\ agent_x = "MinimaxAgent" /\ agent_o = "MinimaxAgent"
    /\ referee = "RegularReferee"
    /\ judgement = "DRAW" /\ count(board, EMPTY) = 0

\* C2: a game of MinimaxAgent against RandomAgent under RegularReferee, in
\* either seat, never ends in the RandomAgent side's WINS nor in a penalty.
C2_MinimaxNeverLoses ==
    /\ (agent_x = "MinimaxAgent" /\ agent_o = "RandomAgent"
          /\ referee = "RegularReferee")
         => judgement \in {"None", "X_WINS", "DRAW"}
    /\ (agent_x = "RandomAgent" /\ agent_o = "MinimaxAgent"
          /\ referee = "RegularReferee")
         => judgement \in {"None", "O_WINS", "DRAW"}

\* C3: on a board with a complete line of mark m and none of the other
\* mark, every copy of check_win returns m.
C3_CheckWinReturnsLineMark ==
    \A m \in {X, O} :
        (has_line(board, m) /\ ~has_line(board, IF m = X THEN O ELSE X))
          => /\ RandomAgent_check_win(board) = m
             /\ OneStepAheadAgent_check_win(board) = m
             /\ MinimaxAgent_check_win(board) = m
             /\ RegularReferee_check_win(board) = m
             /\ NoPenaltiesReferee_check_win(board) = m

\* C4: under RegularReferee, with any pair of agents, Simulator.run returns
\* a judgement within 10 calls of step, after at most 9 placements: while
\* no judgement is returned both agents answer (the loop cannot stall),
\* every step that returns none has placed one more mark, and there is no
\* eleventh call.
C4_TerminatesWithinTenSteps ==
    referee = "RegularReferee" =>
        /\ steps <= 10
        /\ judgement = "None" =>
              /\ steps <= 9
              /\ count(board, X) + count(board, O) = steps
              /\ agent_step(agent_x, X, board) # {}
              /\ agent_step(agent_o, O, board) # {}
        /\ judgement # "None" =>
              count(board, X) + count(board, O) = steps - 1

C4_Witness ==
    /\ referee = "RegularReferee"
    /\ agent_x = "NoRulesAgent" /\ agent_o = "MinimaxAgent"
    /\ steps = 10 /\ judgement # "None"
    /\ count(board, EMPTY) = 0

\* The histogram turn rule as the specification words it: count of O >=
\* count of X means X is next, otherwise O.
turn_by_histogram(b) == IF count(b, O) >= count(b, X) THEN X ELSE O

\* A submitted move that breaks legality rule (1), (2) or (3): wrong mark,
\* occupied cell, or out of turn.
offends(b, move, player) ==
    /\ move # None
    /\ \/ move[2] # player
       \/ b[move[1][1]][move[1][2]] # EMPTY
       \/ turn_by_histogram(b) # player

\* C5: RegularReferee.step called on a board with a complete line of X or
\* of O and an illegal submitted move returns a penalty, and the penalty
\* is for a player whose move is illegal; it does not return a WINS.
C5_PenaltyBeforeWin ==
    (/\ referee = "RegularReferee" /\ steps = 1
     /\ has_line(board, X) \/ has_line(board, O)
     /\ offends(board, x_move, X) \/ offends(board, o_move, O))
      => /\ judgement \in Penalties
         /\ judgement = "X_PENALTY" => offends(board, x_move, X)
         /\ judgement = "O_PENALTY" => offends(board, o_move, O)

C5_Witness ==
    /\ referee = "RegularReferee" /\ steps = 1
    /\ has_line(board, X) /\ RegularReferee_check_win(board) = X
    /\ x_move = None
    /\ o_move # None /\ o_move[2] = O
    /\ board[o_move[1][1]][o_move[1][2]] # EMPTY
    /\ judgement = "O_PENALTY"

\* C6: in every board of a game under RegularReferee, whatever the agents,
\* the number of X minus the number of O is 0 or 1.
C6_CountDifference ==
    referee = "RegularReferee" =>
        count(board, X) - count(board, O) \in {0, 1}

C6_Witness ==
    /\ referee = "RegularReferee"
    /\ agent_x = "NoRulesAgent" /\ agent_o = "NoRulesAgent"
    /\ count(board, X) = 5 /\ count(board, O) = 4

\* C7: a call of Simulator.step that returns a judgement leaves the board
\* as it was at the start of the step.
C7_JudgementLeavesBoard ==
    [][judgement' # "None" => board' = board]_vars

\* O is penalised on a board where X is to move: O submitted a move in the
\* step that returned the judgement.
C7_Witness ==
    /\ judgement = "O_PENALTY"
    /\ turn_by_histogram(board) = X
    /\ count(board, X) = 2 /\ count(board, O) = 2

\* C8: after n alternate placements starting with X (the board then holds
\* ceil(n/2) X and floor(n/2) O) whose_turn names the player of placement
\* n+1, X when n is even and O when n is odd; and on every board each
\* rule-respecting agent declines for "not my turn" exactly when
\* whose_turn names the other player.  Both are facts about the board
\* alone: they are evaluated where no move is submitted, and every board
\* occurs there.
C8_TurnRule ==
    (x_move = None /\ o_move = None) =>
        LET n == count(board, X) + count(board, O)
            hist == board_histogram(board)
        IN  /\ (/\ count(board, X) = (n + 1) \div 2
                /\ count(board, O) = n \div 2)
                  => whose_turn(board) = IF n % 2 = 0 THEN X ELSE O
            /\ \A player \in {X, O} :
                  /\ RandomAgent_not_my_turn(player, hist)
                        <=> whose_turn(board) # player
                  /\ OneStepAheadAgent_not_my_turn(player, hist)
                        <=> whose_turn(board) # player
                  /\ MinimaxAgent_not_my_turn(player, hist)
                        <=> whose_turn(board) # player

\* After X, O, X, O, X the referee takes O to be next: an X move on a free
\* cell is penalised as out of turn.
C8_Witness ==
    /\ referee = "RegularReferee" /\ steps = 1
    /\ count(board, X) = 3 /\ count(board, O) = 2
    /\ ~has_line(board, X) /\ ~has_line(board, O)
    /\ whose_turn(board) = O
    /\ x_move # None /\ x_move[2] = X
    /\ board[x_move[1][1]][x_move[1][2]] = EMPTY
    /\ o_move = None
    /\ judgement = "X_PENALTY"

\* The boards of the sequence X (0,0), O (1,1), X (0,1), O (2,2).
Scenario1 == place(EmptyBoard, <<0, 0>>, X)

Scenario2 == place(Scenario1, <<1, 1>>, O)

Scenario3 == place(Scenario2, <<0, 1>>, X)

\* C9: RegularReferee.step returns none when the board has no complete
\* line and is not full, the player whose turn it is submits its own mark
\* on an empty cell and the other player submits nothing; in particular at
\* each of the four steps X (0,0), O (1,1), X (0,1), O (2,2).
C9_LegalMoveContinues ==
    (referee = "RegularReferee" /\ steps = 1) =>
        /\ (/\ \/ /\ x_move # None /\ o_move = None
                  /\ x_move[2] = X
                  /\ board[x_move[1][1]][x_move[1][2]] = EMPTY
                  /\ turn_by_histogram(board) = X
               \/ /\ o_move # None /\ x_move = None
                  /\ o_move[2] = O
                  /\ board[o_move[1][1]][o_move[1][2]] = EMPTY
                  /\ turn_by_histogram(board) = O
            /\ count(board, EMPTY) > 0
            /\ ~has_line(board, X) /\ ~has_line(board, O))
              => judgement = "None"
        /\ (x_move = <<<<0, 0>>, X>> /\ o_move = None /\ board = EmptyBoard)
              => judgement = "None"
        /\ (x_move = None /\ o_move = <<<<1, 1>>, O>> /\ board = Scenario1)
              => judgement = "None"
        /\ (x_move = <<<<0, 1>>, X>> /\ o_move = None /\ board = Scenario2)
              => judgement = "None"
        /\ (x_move = None /\ o_move = <<<<2, 2>>, O>> /\ board = Scenario3)
              => judgement = "None"

C9_Witness ==
    /\ referee = "RegularReferee" /\ steps = 1
    /\ board = Scenario3
    /\ x_move = None /\ o_move = <<<<2, 2>>, O>>
    /\ judgement = "None"

\* Row 0 is [X, X, X] and no other line is complete.
row0_x_only(b) ==
    /\ \A col \in Rows : b[0][col] = X
    /\ \A line \in Lines \ {{<<0, 0>>, <<0, 1>>, <<0, 2>>}} :
          \A m \in {X, O} : \E c \in line : b[c[1]][c[2]] # m

\* C10: on a board whose row 0 is [X, X, X] and that has no other complete
\* line, NoPenaltiesReferee.step returns X_WINS whatever the moves, and
\* RegularReferee.step returns X_WINS when neither player submits a move.
C10_Row0Wins ==
    (steps = 1 /\ row0_x_only(board)) =>
        /\ referee = "NoPenaltiesReferee" => judgement = "X_WINS"
        /\ (referee = "RegularReferee" /\ x_move = None /\ o_move = None)
              => judgement = "X_WINS"

C10_Witness ==
    /\ steps = 1 /\ row0_x_only(board)
    /\ referee = "NoPenaltiesReferee"
    /\ x_move # None /\ x_move[2] = O
    /\ o_move # None /\ board[o_move[1][1]][o_move[1][2]] # EMPTY
    /\ judgement = "X_WINS"

\* C11: for a fixed board NoPenaltiesReferee.step returns the same result
\* for every pair of moves (the result it gives when no move is submitted)
\* and never a penalty; that result is what the win and draw checks of
\* RegularReferee.step give on the board: X_WINS, O_WINS, DRAW in that
\* order, none otherwise.  With no move submitted RegularReferee.step
\* passes its legality checks and returns that same result when it is a
\* judgement, and goes on to its skipped-turn penalty when it is none.
\* The comparison with RegularReferee is a fact about the board alone and
\* is evaluated where no move is submitted.
C11_NoPenaltiesIgnoresMoves ==
    (referee = "NoPenaltiesReferee" /\ steps = 1) =>
        /\ judgement \notin Penalties
        /\ judgement = NoPenaltiesReferee_step(board, None, None)
        /\ (x_move = None /\ o_move = None) =>
              /\ judgement =
                    IF RegularReferee_check_win(board) = X THEN "X_WINS"
                    ELSE IF RegularReferee_check_win(board) = O THEN "O_WINS"
                    ELSE IF count(board, EMPTY) = 0 THEN "DRAW"
                    ELSE "None"
              /\ IF judgement # "None"
                 THEN RegularReferee_step(board, None, None) = judgement
                 ELSE RegularReferee_step(board, None, None) \in Penalties

\* Both players submit a move RegularReferee would penalise (O's mark from
\* X, an occupied cell from O) and NoPenaltiesReferee returns none.
C11_Witness ==
    /\ referee = "NoPenaltiesReferee" /\ steps = 1
    /\ x_move # None /\ x_move[2] = O
    /\ o_move # None /\ board[o_move[1][1]][o_move[1][2]] # EMPTY
    /\ count(board, EMPTY) > 0
    /\ judgement = "None"
    /\ RegularReferee_step(board, x_move, o_move) = "X_PENALTY"

\* C12: with NoPenaltiesReferee and a NoRulesAgent in at least one seat,
\* the executions in which the NoRulesAgent declines at every poll are
\* executions of Simulator.run (each of their steps is a Simulator.step),
\* no judgement is ever returned in them, and a further step is always
\* possible: run loops forever.
C12_NeverJudged ==
    /\ [](/\ judgement = "None"
          /\ agent_step_coin_false(agent_x, X, board) # {}
          /\ agent_step_coin_false(agent_o, O, board) # {})
    /\ [][Simulator_step]_vars

\* The loop is past the tenth call of step, which no game under
\* RegularReferee reaches, with a rule-respecting agent in the other seat.
C12_Witness ==
    /\ referee = "NoPenaltiesReferee"
    /\ agent_x = "MinimaxAgent" /\ agent_o = "NoRulesAgent"
    /\ steps >= 11 /\ judgement = "None"
    /\ count(board, X) = 1 /\ count(board, O) = 0

\* The score the specification gives a board b on which player p has just
\* placed: +1 when p has a complete line, 0 when the board is full, else
\* the negation of the best score the opponent gets by placing on one of
\* the free cells of b.
RECURSIVE minimax_score(_, _)
minimax_score(b, p) ==
    IF has_line(b, p) THEN 1
    ELSE IF count(b, EMPTY) = 0 THEN 0
    ELSE LET q == IF p = O THEN X ELSE O
             replies == {minimax_score(place(b, c, q), q) :
                            c \in {d \in Rows \X Rows : b[d[1]][d[2]] = EMPTY}}
         IN  (CHOOSE v \in replies : \A w \in replies : w <= v) * (-1)

\* C13: when MinimaxAgent.step passes its four checks and calls
\* position_values(board, player), the value returned for each free cell c
\* is the score of the board with the player's mark placed on c alone.
C13_PositionValuesAreScores ==
    \A player \in {X, O} :
        (/\ steps = 0
         /\ (IF player = X THEN agent_x ELSE agent_o) = "MinimaxAgent"
         /\ MinimaxAgent_step(player, board) # {None})
          => position_values(board, player)
               = {<<c, minimax_score(place(board, c, player), player)>> :
                     c \in {d \in Rows \X Rows : board[d[1]][d[2]] = EMPTY}}

\* The free cells of b on which mark m would complete a line: the cell is
\* EMPTY and the two other cells of one of its lines hold m.
completing_cells(b, m) ==
    {c \in Rows \X Rows :
        /\ b[c[1]][c[2]] = EMPTY
        /\ \E line \in Lines :
              c \in line /\ \A d \in line \ {c} : b[d[1]][d[2]] = m}

\* The agent polled by Agent_call, its mark and the move it returned.
polled_agent == IF agent_x # "None" THEN agent_x ELSE agent_o

polled_player == IF agent_x # "None" THEN X ELSE O

returned_move == IF agent_x # "None" THEN x_move ELSE o_move

\* C14: when OneStepAheadAgent.step passes its four checks (it returns a
\* move): if some free cell would complete a line of the agent's mark the
\* move is on such a cell; otherwise, if some free cell would complete a
\* line of the opponent's mark, the move is on such a cell.
C14_WinsOrBlocks ==
    (steps = 1 /\ polled_agent = "OneStepAheadAgent" /\ returned_move # None)
      => LET own == completing_cells(board, polled_player)
             theirs == completing_cells(
                           board, IF polled_player = O THEN X ELSE O)
         IN  IF own # {} THEN returned_move[1] \in own
             ELSE theirs # {} => returned_move[1] \in theirs

\* The agents that make the four pre-move checks.
RuleRespecting == {"RandomAgent", "OneStepAheadAgent", "MinimaxAgent"}

\* C15: in a game under RegularReferee between two rule-respecting agents
\* no board holds a complete line of X and a complete line of O.
C15_NoTwoWinners ==
    (/\ referee = "RegularReferee"
     /\ agent_x \in RuleRespecting /\ agent_o \in RuleRespecting)
      => ~(has_line(board, X) /\ has_line(board, O))

\* C16: a call of step on an agent of any of the four classes leaves the
\* Board object it is handed as it was: the placements of the call are
\* made on the objects Board.copy returns.
C16_AgentsLeaveBoard == [][board' = board]_vars

\* OneStepAheadAgent has returned a winning move: the call ended with the
\* hypothetical mark still on its copy, which differs from the board.
C16_Witness ==
    /\ steps = 1 /\ polled_agent = "OneStepAheadAgent"
    /\ returned_move # None
    /\ returned_move[1] \in completing_cells(board, polled_player)
    /\ LET heap == OneStepAheadAgent_step_heap(polled_player, <<board>>, 1)
       IN  /\ Len(heap) = 2
           /\ heap[1] = board
           /\ heap[2] = place(board, returned_move[1], polled_player)

\* check_win of the agent's own class.
agent_check_win(agent, b) ==
    CASE agent = "RandomAgent" -> RandomAgent_check_win(b)
      [] agent = "OneStepAheadAgent" -> OneStepAheadAgent_check_win(b)
      [] agent = "MinimaxAgent" -> MinimaxAgent_check_win(b)

\* C17: a rule-respecting agent returns a move exactly when its check_win
\* reports no winner, the board is not full and the histogram turn rule
\* names its own mark; a move it returns carries its own mark and targets
\* a cell that is EMPTY on the board passed in; and when it returns a move
\* no rule-respecting agent playing the other mark returns one on that
\* board.
C17_MovesOnlyOnOwnTurn ==
    (steps = 1 /\ polled_agent \in RuleRespecting) =>
        /\ returned_move # None
              <=> /\ agent_check_win(polled_agent, board) = EMPTY
                  /\ count(board, EMPTY) > 0
                  /\ turn_by_histogram(board) = polled_player
        /\ returned_move # None =>
              /\ returned_move[2] = polled_player
              /\ board[returned_move[1][1]][returned_move[1][2]] = EMPTY
              /\ \A other \in RuleRespecting :
                    agent_step(other, IF polled_player = O THEN X ELSE O,
                               board) = {None}

\* MinimaxAgent as O moves on a board with two X and one O.
C17_Witness ==
    /\ steps = 1 /\ polled_agent = "MinimaxAgent" /\ polled_player = O
    /\ count(board, X) = 2 /\ count(board, O) = 1
    /\ returned_move # None /\ returned_move[2] = O
    /\ MinimaxAgent_step(X, board) = {None}

\* C18: under RegularReferee a step that returns none places exactly one
\* mark, the mark of the player whose turn it is, on a cell that was
\* EMPTY; and no step, whatever it returns, changes a cell that holds X or
\* O.
C18_OneMarkPerStep ==
    [][/\ (referee = "RegularReferee" /\ judgement' = "None") =>
             \E c \in Rows \X Rows :
                 /\ board[c[1]][c[2]] = EMPTY
                 /\ board' = place(board, c, turn_by_histogram(board))
       /\ referee = "RegularReferee" =>
             \A c \in Rows \X Rows :
                 board[c[1]][c[2]] # EMPTY
                   => board'[c[1]][c[2]] = board[c[1]][c[2]]]_vars

\* Nine steps have returned none and the board is full, against an agent
\* that submits any move at all.
C18_Witness ==
    /\ referee = "RegularReferee"
    /\ agent_x = "NoRulesAgent" /\ agent_o = "NoRulesAgent"
    /\ judgement = "None" /\ steps = 9
    /\ count(board, X) = 5 /\ count(board, O) = 4

\* C19: a game under RegularReferee between two rule-respecting agents, in
\* any seats, never gets X_PENALTY or O_PENALTY: its judgement, returned
\* by the tenth step at the latest, is X_WINS, O_WINS or DRAW.
C19_NoPenaltyForRuleRespecting ==
    (/\ referee = "RegularReferee"
     /\ agent_x \in RuleRespecting /\ agent_o \in RuleRespecting)
      => /\ judgement \in {"None", "X_WINS", "O_WINS", "DRAW"}
         /\ steps >= 10 => judgement # "None"

\* A game of RandomAgent against OneStepAheadAgent that O has won.
C19_Witness ==
    /\ referee = "RegularReferee"
    /\ agent_x = "RandomAgent" /\ agent_o = "OneStepAheadAgent"
    /\ judgement = "O_WINS" /\ has_line(board, O)

\* C20: in a game under RegularReferee between two rule-respecting agents,
\* a step that starts on a board with a complete line of mark m returns
\* m's WINS.
C20_EndsAtFirstLine ==
    [][(/\ referee = "RegularReferee"
        /\ agent_x \in RuleRespecting /\ agent_o \in RuleRespecting
        /\ judgement = "None")
         => /\ has_line(board, X) => judgement' = "X_WINS"
            /\ has_line(board, O) => judgement' = "O_WINS"]_vars

====
